---- MODULE Spec2Model ----
(***************************************************************************)
(* A model of app.py, the AutoSales dashboard: the column-mapping and      *)
(* time-bucketed aggregation of an uploaded sales CSV (index), the bounded *)
(* chart history (save_chart_to_history) and the storage-path settings     *)
(* (settings_page).                                                         *)
(*                                                                          *)
(* Numbers are fixed-point: a numeric value v of the program is the        *)
(* integer 4*v, so that the halves found in the cells (1.5) and the        *)
(* quarters of a quantity x price product are exact.                       *)
(***************************************************************************)
EXTENDS Integers, Sequences, FiniteSets, TLC

VARIABLES
    UPLOAD_FOLDER,      \* the global of app.py:17, a directory path
    OUTPUT_FOLDER,      \* the global of app.py:18, a directory path
    configFile,         \* the content of config.json
    dirs,               \* the directories that exist
    uploads,            \* the uploaded files: records [dir, name, file]
    outputs,            \* the report files: records [dir, name]
    chartHistoryFile,   \* the content of chart_history.json
    disk,               \* how the disk under BASE_DIR takes the next write
    request,            \* the form of the last request
    response,           \* what the last request rendered
    clock,              \* the requests handled so far: datetime.now(), uuid4()
    calls               \* the calls of save_chart_to_history under way

vars == <<UPLOAD_FOLDER, OUTPUT_FOLDER, configFile, dirs, uploads, outputs,
          chartHistoryFile, disk, request, response, clock, calls>>

----------------------------------------------------------------------------
(* Bounds of the model.                                                    *)

\* The rows of an uploaded table.
MaxRows == 3

\* The calls of save_chart_to_history in SpecHistory.
MaxSaves == 22

\* The times the disk under BASE_DIR starts to fail.
MaxDiskFailures == 1

\* The requests of a behaviour of Spec.
MaxRequests == 3

----------------------------------------------------------------------------
(* Texts: the strings of cells, headers and form fields, and what the      *)
(* string conversions of the program make of them.                         *)

\* str.strip().lower() on the texts of the model (app.py:289, 323, 326-336).
StripLower(s) ==
    CASE s = " " -> ""
      [] s = "Product" -> "product"
      [] s = " Total" -> "total"
      [] s = "Date " -> "date"
      [] s = " Month" -> "month"
      [] s = "Quantity" -> "quantity"
      [] OTHER -> s

\* The fixed-point image of the integer n.
Fixed(n) == 4 * n

\* The texts pandas reads as numbers, with their values.
NumeralValue(s) ==
    CASE s = "-2" -> Fixed(-2)
      [] s = "0" -> Fixed(0)
      [] s = "1" -> Fixed(1)
      [] s = "1.5" -> Fixed(1) + 2
      [] s = "2" -> Fixed(2)
      [] s = "3" -> Fixed(3)
      [] s = "4" -> Fixed(4)
      [] s = "12.5" -> Fixed(12) + 2
      [] s = "13" -> Fixed(13)
      [] s = "2023" -> Fixed(2023)
      [] s = "2024" -> Fixed(2024)
      [] s = "2024.5" -> Fixed(2024) + 2

IsNumeral(s) ==
    s \in {"-2", "0", "1", "1.5", "2", "3", "4", "12.5", "13", "2023", "2024",
           "2024.5"}

\* A timestamp, as the count of days of 31-day months: the day is kept, and
\* dt.to_period("M") drops it.
DateOf(y, m, d) == (y * 12 + (m - 1)) * 31 + (d - 1)

\* The texts pd.to_datetime parses as calendar dates.
IsDate(s) == s \in {"2024-02-01", "2024-01-20", "2024-01-05", "2023-12-31"}

DateValue(s) ==
    CASE s = "2024-02-01" -> DateOf(2024, 2, 1)
      [] s = "2024-01-20" -> DateOf(2024, 1, 20)
      [] s = "2024-01-05" -> DateOf(2024, 1, 5)
      [] s = "2023-12-31" -> DateOf(2023, 12, 31)

\* calendar.month_abbr (app.py:461).
month_abbr ==
    <<"Jan", "Feb", "Mar", "Apr", "May", "Jun",
      "Jul", "Aug", "Sep", "Oct", "Nov", "Dec">>

\* The full month names strptime's %B knows.
month_name ==
    <<"January", "February", "March", "April", "May", "June", "July",
      "August", "September", "October", "November", "December">>

\* The month number a name stands for in the list of names, 0 when none.
MonthIn(names, s) ==
    IF \E i \in 1..12 : names[i] = s
    THEN CHOOSE i \in 1..12 : names[i] = s
    ELSE 0

\* The order of Python's string comparison on the product names of the model.
TextOrder == <<"A", "B", "C">>

TextRank(s) == CHOOSE i \in 1..Len(TextOrder) : TextOrder[i] = s

----------------------------------------------------------------------------
(* Cells and frames: the values of a pandas DataFrame.                     *)

NaN == [t |-> "nan", n |-> 0, s |-> ""]
NumCell(n) == [t |-> "num", n |-> n, s |-> ""]
StrCell(s) == [t |-> "str", n |-> 0, s |-> s]
TimeCell(n) == [t |-> "time", n |-> n, s |-> ""]

notna(c) == c.t # "nan"

\* One cell of pd.to_numeric(series, errors="coerce").
ToNumeric(c) ==
    IF c.t = "num" THEN c
    ELSE IF c.t = "str" /\ IsNumeral(c.s) THEN NumCell(NumeralValue(c.s))
    ELSE NaN

\* One cell of pd.to_datetime(series, errors="coerce"): a number is a count
\* of nanoseconds from the epoch, which falls in 1970-01 or, negative, in
\* 1969-12.
ToDatetime(c) ==
    IF c.t = "num"
    THEN IF c.n >= 0 THEN TimeCell(DateOf(1970, 1, 1))
         ELSE TimeCell(DateOf(1969, 12, 31))
    ELSE IF c.t = "str" /\ IsDate(c.s) THEN TimeCell(DateValue(c.s))
    ELSE NaN

\* series.astype(str) on one cell: the text of a number is no month name.
AsText(c) == IF c.t = "str" THEN c.s ELSE "nan"

\* One cell of pd.to_datetime(series.astype(str), format=fmt).dt.month.
MonthByName(names, c) ==
    IF MonthIn(names, AsText(c)) # 0
    THEN NumCell(Fixed(MonthIn(names, AsText(c))))
    ELSE NaN

fillna(c, other) == IF notna(c) THEN c ELSE other

\* astype(int) on a number: truncation towards zero.
AsInt(n) == IF n >= 0 THEN n \div 4 ELSE -((-n) \div 4)

\* The product of two numbers; NaN when either is NaN.
Times(a, b) ==
    IF notna(a) /\ notna(b) THEN NumCell((a.n * b.n) \div 4) ELSE NaN

\* One cell of parse_month_to_number.
parse_month_to_number(c) ==
    fillna(fillna(ToNumeric(c), MonthByName(month_abbr, c)),
           MonthByName(month_name, c))

\* df[name] = values, row by row.
Assign(df, name, values) ==
    [names |-> df.names \cup {name},
     rows |-> [i \in 1..Len(df.rows) |->
                 [c \in df.names \cup {name} |->
                     IF c = name THEN values[i] ELSE df.rows[i][c]]]]

\* df[name], as a sequence of cells.
Col(df, name) == [i \in 1..Len(df.rows) |-> df.rows[i][name]]

\* pd.to_numeric(series, errors="coerce").
to_numeric(cells) == [i \in 1..Len(cells) |-> ToNumeric(cells[i])]

\* pd.to_datetime(series, errors="coerce").
to_datetime(cells) == [i \in 1..Len(cells) |-> ToDatetime(cells[i])]

\* parse_month_to_number(series).
MonthNumbers(cells) ==
    [i \in 1..Len(cells) |-> parse_month_to_number(cells[i])]

\* df.dropna(subset=...).
dropna(df, subset) ==
    LET Keep(row) == \A c \in subset : notna(row[c])
    IN [names |-> df.names, rows |-> SelectSeq(df.rows, Keep)]

\* The set of the indices of a sequence.
Indices(s) == 1..Len(s)

\* The set of the elements of a sequence.
Range(s) == {s[i] : i \in 1..Len(s)}

\* The sum of f over a finite set of indices.
RECURSIVE SumOver(_, _)
SumOver(f, S) ==
    IF S = {} THEN 0
    ELSE LET i == CHOOSE j \in S : TRUE
         IN f[i] + SumOver(f, S \ {i})

\* df.columns.str.strip().str.lower().tolist().
ColumnsOf(header) == [j \in 1..Len(header) |-> StripLower(header[j])]

\* pd.read_csv, then the normalisation of the header: a column whose cells
\* are all numerals or empty is numeric, any other holds its texts; an empty
\* cell is NaN.
read_csv_flexible(file) ==
    LET width == Len(file.header)
        Numeric(j) ==
            \A i \in 1..Len(file.rows) :
                file.rows[i][j] = "" \/ IsNumeral(file.rows[i][j])
        Cell(i, j) ==
            LET text == file.rows[i][j]
            IN IF text = "" THEN NaN
               ELSE IF Numeric(j) THEN NumCell(NumeralValue(text))
               ELSE StrCell(text)
        columns == ColumnsOf(file.header)
        Index(name) == CHOOSE j \in 1..width : columns[j] = name
    IN [columns |-> columns,
        df |-> [names |-> Range(columns),
                rows |-> [i \in 1..Len(file.rows) |->
                            [c \in Range(columns) |-> Cell(i, Index(c))]]]]

----------------------------------------------------------------------------
(* Grouping: df.groupby(key)[column].sum(), sort_index() and idxmax().     *)

\* The order of the keys of a group index: numbers by value, texts as
\* Python compares strings.
KeyLess(a, b) ==
    IF a.t = "str" /\ b.t = "str" THEN TextRank(a.s) < TextRank(b.s)
    ELSE a.n < b.n

\* The distinct elements of a sequence, in the order they are first met.
RECURSIVE Distinct(_)
Distinct(s) ==
    IF s = <<>> THEN <<>>
    ELSE LET front == Distinct(SubSeq(s, 1, Len(s) - 1))
             last == s[Len(s)]
         IN IF last \in Range(front) THEN front ELSE Append(front, last)

\* The keys of the groups as met in row order, without sorting.
UnsortedKeys(keys) == Distinct(keys)

\* The sorted index of a groupby (sort=True, the default) and of sort_index().
SortKeys(keys) == SortSeq(Distinct(keys), KeyLess)

\* A number to add: sum() skips NaN.
Addend(c) == IF c.t = "num" THEN c.n ELSE 0

\* groupby(keys)[column].sum(): one entry per distinct key, the sum of the
\* cells of the rows with that key.
groupby_sum(keys, cells) ==
    LET index == SortKeys(keys)
        addends == [i \in 1..Len(cells) |-> Addend(cells[i])]
    IN [index |-> index,
        values |-> [j \in 1..Len(index) |->
                      SumOver(addends, {i \in 1..Len(keys) : keys[i] = index[j]})]]

\* Series.sort_index().
sort_index(grouped) ==
    LET index == SortKeys(grouped.index)
        At(k) == CHOOSE j \in 1..Len(grouped.index) : grouped.index[j] = k
    IN [index |-> index,
        values |-> [j \in 1..Len(index) |-> grouped.values[At(index[j])]]]

\* The last position of the maximum.
LastMaxPosition(values) ==
    CHOOSE j \in 1..Len(values) :
        /\ \A i \in 1..Len(values) : values[i] <= values[j]
        /\ \A i \in (j + 1)..Len(values) : values[i] < values[j]

\* The position idxmax() picks among those of the maximum: the first of the
\* index.
FirstMaxPosition(values) ==
    CHOOSE j \in 1..Len(values) :
        /\ \A i \in 1..Len(values) : values[i] <= values[j]
        /\ \A i \in 1..(j - 1) : values[i] < values[j]

\* Series.idxmax(): the index label of the first maximum.
idxmax(grouped) == grouped.index[FirstMaxPosition(grouped.values)]

\* Series.sum().
sum(cells) == SumOver([i \in 1..Len(cells) |-> Addend(cells[i])], 1..Len(cells))

----------------------------------------------------------------------------
(* Period keys and labels.                                                 *)

TimeModes == {"date", "year_month", "year", "month"}

Two(n) == IF n < 10 THEN "0" \o ToString(n) ELSE ToString(n)

Four(n) ==
    IF n < 10 THEN "000" \o ToString(n)
    ELSE IF n < 100 THEN "00" \o ToString(n)
    ELSE IF n < 1000 THEN "0" \o ToString(n)
    ELSE ToString(n)

\* str() of a monthly Period whose ordinal is year * 12 + (month - 1).
PeriodLabel(k) == Four(k \div 12) \o "-" \o Two((k % 12) + 1)

\* Timestamp.to_period("M"): the day is dropped.
to_period(c) == NumCell(c.n \div 31)

\* pd.PeriodIndex(year=..., month=..., freq="M"), one period.
PeriodIndex(year, month) == NumCell(AsInt(year.n) * 12 + (AsInt(month.n) - 1))

\* (month_num >= 1) & (month_num <= 12).
InCalendar(c) == c.n >= Fixed(1) /\ c.n <= Fixed(12)

----------------------------------------------------------------------------
(* The process_data branch of index(): app.py:309-512.                     *)

\* The messages of the error pages.
SessionExpired == "Session expired. Please upload file again."
FileNotFound == "Uploaded file not found. Please upload again."
UnreadableFile == "Unable to read uploaded CSV."
MissingProductColumn == "Please enter a valid product column name."
MissingRevenueColumns ==
    "Enter total column name, or both quantity and price column names."
NoValidRows == "No valid rows after applying selected columns."
NoTimeValuesFound == "No valid time values found for selected columns."

MissingTimeColumns(mode) ==
    CASE mode = "date" -> "Date mode requires a valid date column selection."
      [] mode = "year_month" ->
            "Year + Month mode requires both year and month column selections."
      [] mode = "year" -> "Year mode requires a valid year column selection."
      [] mode = "month" -> "Month mode requires a valid month column selection."

Roles ==
    {"product_col", "total_col", "quantity_col", "price_col", "date_col",
     "year_col", "month_col"}

NoDefaults == [r \in Roles |-> ""]

\* render_template("index.html", error=...): no form state.
ErrorPage(message) ==
    [page |-> "index", error |-> message, form |-> FALSE, columns |-> <<>>,
     file_token |-> "", defaults |-> NoDefaults, selected_mode |-> "",
     result |-> FALSE, revenue |-> 0, product |-> NaN, labels |-> <<>>,
     values |-> <<>>, used_basis |-> "",
     success |-> ""]

\* render_template("index.html", error=..., columns=..., file_token=...,
\* defaults=..., selected_mode=...).
FormErrorPage(message, columns, file_token, defaults, time_mode) ==
    [page |-> "index", error |-> message, form |-> TRUE, columns |-> columns,
     file_token |-> file_token, defaults |-> defaults,
     selected_mode |-> time_mode, result |-> FALSE, revenue |-> 0,
     product |-> NaN, labels |-> <<>>, values |-> <<>>, used_basis |-> "",
     success |-> ""]

\* The page of a finished aggregation (app.py:501-512).
ResultPage(columns, file_token, defaults, time_mode, revenue, product, labels, values) ==
    [page |-> "index", error |-> "", form |-> TRUE, columns |-> columns,
     file_token |-> file_token, defaults |-> defaults,
     selected_mode |-> time_mode, result |-> TRUE, revenue |-> revenue,
     product |-> product, labels |-> labels, values |-> values,
     used_basis |-> time_mode, success |-> ""]

\* time_mode, stripped and lowered; any other text is "date" (app.py:326-328).
TimeModeOf(form) ==
    IF StripLower(form.time_mode) \in TimeModes
    THEN StripLower(form.time_mode)
    ELSE "date"

\* The role column names, stripped and lowered (app.py:330-346).
DefaultsOf(form) == [r \in Roles |-> StripLower(form[r])]

\* What the checks of a request read: the columns of the table, the token
\* and the normalised form.
Context(read, form) ==
    [columns |-> read.columns, file_token |-> form.file_token,
     time_mode |-> TimeModeOf(form), defaults |-> DefaultsOf(form)]

\* An error page that carries the message alone.
FailBare(ctx, message) == [done |-> FALSE, page |-> ErrorPage(message)]

\* The error page that keeps the form state.
Fail(ctx, message) ==
    [done |-> FALSE,
     page |-> FormErrorPage(message, ctx.columns, ctx.file_token, ctx.defaults,
                            ctx.time_mode)]

\* not product_col or product_col not in columns (app.py:348).
ProductMissing(columns, product_col) ==
    product_col = "" \/ product_col \notin columns

\* total_col and total_col in columns (app.py:358).
HasTotal(columns, total_col) == total_col # "" /\ total_col \in columns

\* quantity_col in columns and price_col in columns (app.py:360).
HasQuantityAndPrice(columns, quantity_col, price_col) ==
    quantity_col \in columns /\ price_col \in columns

\* df["total"] = ... (app.py:358-363).
WithTotal(df, columns, defaults) ==
    Assign(df, "total",
           IF HasTotal(columns, defaults.total_col)
           THEN to_numeric(Col(df, defaults.total_col))
           ELSE [i \in 1..Len(df.rows) |->
                   Times(ToNumeric(df.rows[i][defaults.quantity_col]),
                         ToNumeric(df.rows[i][defaults.price_col]))])

\* df["product"] = df[product_col] (app.py:374).
WithProduct(df, product_col) == Assign(df, "product", Col(df, product_col))

\* if quantity_col in columns: df["quantity"] = ... (app.py:376-377).
WithQuantity(df, columns, quantity_col) ==
    IF quantity_col \in columns
    THEN Assign(df, "quantity", to_numeric(Col(df, quantity_col)))
    ELSE df

\* The frame with its derived columns, the rows without product or total
\* dropped (app.py:358-379).
Derived(df, columns, defaults) ==
    dropna(WithQuantity(WithProduct(WithTotal(df, columns, defaults),
                                    defaults.product_col),
                        columns, defaults.quantity_col),
           {"product", "total"})

\* Whether the columns the time mode reads are among the columns of the table
\* (app.py:393, 409, 432, 448).
HasTimeColumns(time_mode, defaults, columns) ==
    CASE time_mode = "date" -> defaults.date_col \in columns
      [] time_mode = "year_month" ->
            defaults.year_col \in columns /\ defaults.month_col \in columns
      [] time_mode = "year" -> defaults.year_col \in columns
      [] time_mode = "month" -> defaults.month_col \in columns

\* chart_df = chart_df[(month_num >= 1) & (month_num <= 12)].
CalendarRows(chart_df) ==
    LET Keep(row) == InCalendar(row["month_num"])
    IN [names |-> chart_df.names, rows |-> SelectSeq(chart_df.rows, Keep)]

\* chart_df["period"] = pd.PeriodIndex(year=..., month=..., freq="M").
WithPeriod(chart_df) ==
    Assign(chart_df, "period",
           [i \in 1..Len(chart_df.rows) |->
               PeriodIndex(chart_df.rows[i]["year_num"],
                           chart_df.rows[i]["month_num"])])

\* series.astype(int), one cell.
IntCell(c) == NumCell(AsInt(c.n))

\* Date mode without the dropna: the rows without a date stay.
DateRowsKept(chart_df, defaults) ==
    Assign(chart_df, "date", to_datetime(Col(chart_df, defaults.date_col)))

\* The surviving rows of date mode (app.py:402-403).
DateRows(chart_df, defaults) ==
    dropna(Assign(chart_df, "date", to_datetime(Col(chart_df, defaults.date_col))), {"date"})

\* The surviving rows of year_month mode (app.py:418-426).
YearMonthRows(chart_df, defaults) ==
    WithPeriod(CalendarRows(dropna(
        Assign(Assign(chart_df, "year_num",
                      to_numeric(Col(chart_df, defaults.year_col))),
               "month_num", MonthNumbers(Col(chart_df, defaults.month_col))),
        {"year_num", "month_num"})))

\* The surviving rows of year mode (app.py:441-442).
YearRows(chart_df, defaults) ==
    dropna(Assign(chart_df, "year_num",
                  to_numeric(Col(chart_df, defaults.year_col))),
           {"year_num"})

\* The surviving rows of month mode (app.py:457-459).
MonthRows(chart_df, defaults) ==
    CalendarRows(dropna(
        Assign(chart_df, "month_num",
               MonthNumbers(Col(chart_df, defaults.month_col))),
        {"month_num"}))

\* chart_df once the rows without a period key are dropped.
Surviving(chart_df, time_mode, defaults) ==
    CASE time_mode = "date" -> DateRows(chart_df, defaults)
      [] time_mode = "year_month" -> YearMonthRows(chart_df, defaults)
      [] time_mode = "year" -> YearRows(chart_df, defaults)
      [] time_mode = "month" -> MonthRows(chart_df, defaults)

\* series.dt.to_period("M").
ToPeriods(cells) == [i \in 1..Len(cells) |-> to_period(cells[i])]

\* series.astype(int).
astype_int(cells) == [i \in 1..Len(cells) |-> IntCell(cells[i])]

\* The period keys of the surviving rows: what the rows are grouped by
\* (app.py:404, 427, 443, 460).
PeriodKeys(surviving, time_mode) ==
    CASE time_mode = "date" -> ToPeriods(Col(surviving, "date"))
      [] time_mode = "year_month" -> Col(surviving, "period")
      [] time_mode = "year" -> astype_int(Col(surviving, "year_num"))
      [] time_mode = "month" -> astype_int(Col(surviving, "month_num"))

\* grouped: the totals of the surviving rows summed by period key, in the
\* order of the keys (app.py:404, 427, 443, 460).
Grouped(surviving, time_mode) ==
    sort_index(groupby_sum(PeriodKeys(surviving, time_mode),
                           Col(surviving, "total")))

\* The label of a period key (app.py:405, 428, 444, 461).
LabelOf(time_mode, key) ==
    CASE time_mode \in {"date", "year_month"} -> PeriodLabel(key.n)
      [] time_mode = "year" -> ToString(key.n)
      [] time_mode = "month" -> month_abbr[key.n]

Labels(time_mode, index) ==
    [j \in 1..Len(index) |-> LabelOf(time_mode, index[j])]

\* The revenue of the bucketed rows alone.
BucketedRevenue(df, surviving) == sum(Col(surviving, "total"))

\* total_revenue = df["total"].sum() (app.py:474).
TotalRevenue(df, surviving) == sum(Col(df, "total"))

\* The best product chosen by total, whatever the quantities.
TotalColumn(df) == "total"

\* The column the best product is chosen by (app.py:475-478).
LeaderColumn(df) ==
    IF /\ "quantity" \in df.names
       /\ \E i \in 1..Len(df.rows) : notna(df.rows[i]["quantity"])
    THEN "quantity"
    ELSE "total"

\* best_product (app.py:475-478).
BestProduct(df) ==
    idxmax(groupby_sum(Col(df, "product"), Col(df, LeaderColumn(df))))

\* The page of the aggregation, or NoTimeValuesFound (app.py:464-512).
Charted(ctx, df, surviving, grouped) ==
    IF Len(surviving.rows) = 0 \/ Len(grouped.index) = 0
    THEN Fail(ctx, NoTimeValuesFound)
    ELSE [done |-> TRUE,
          page |-> ResultPage(ctx.columns, ctx.file_token, ctx.defaults,
                              ctx.time_mode, TotalRevenue(df, surviving),
                              BestProduct(df),
                              Labels(ctx.time_mode, grouped.index),
                              grouped.values)]

\* The time bucketing of the retained rows (app.py:380-462).
Bucketed(ctx, df, surviving) ==
    Charted(ctx, df, surviving, Grouped(surviving, ctx.time_mode))

\* The checks on the retained rows with the columns of the time mode first.
RetainedTimeFirst(ctx, df) ==
    IF ~HasTimeColumns(ctx.time_mode, ctx.defaults, Range(ctx.columns))
    THEN Fail(ctx, MissingTimeColumns(ctx.time_mode))
    ELSE IF Len(df.rows) = 0 THEN Fail(ctx, NoValidRows)
    ELSE Bucketed(ctx, df, Surviving(df, ctx.time_mode, ctx.defaults))

\* The checks on the retained rows, in the order of the code: no row left,
\* then the columns of the time mode (app.py:380-462).
Retained(ctx, df) ==
    IF Len(df.rows) = 0 THEN Fail(ctx, NoValidRows)
    ELSE IF ~HasTimeColumns(ctx.time_mode, ctx.defaults, Range(ctx.columns))
    THEN Fail(ctx, MissingTimeColumns(ctx.time_mode))
    ELSE Bucketed(ctx, df, Surviving(df, ctx.time_mode, ctx.defaults))

\* The checks of the mapping, then the derivation (app.py:348-379).
Validated(ctx, df, columns) ==
    IF ProductMissing(columns, ctx.defaults.product_col)
    THEN Fail(ctx, MissingProductColumn)
    ELSE IF ~(\/ HasTotal(columns, ctx.defaults.total_col)
              \/ HasQuantityAndPrice(columns, ctx.defaults.quantity_col,
                                     ctx.defaults.price_col))
    THEN Fail(ctx, MissingRevenueColumns)
    ELSE Retained(ctx, Derived(df, columns, ctx.defaults))

\* What process_data computes from the table read and the form: the page,
\* and whether the aggregation is done (app.py:323-512).
Aggregate(read, form) ==
    Validated(Context(read, form), read.df, Range(read.columns))

----------------------------------------------------------------------------
(* The chart history: app.py:108-138.                                      *)

\* history[:20] (app.py:132).
HistoryCap == 20

Take(s, n) == SubSeq(s, 1, IF Len(s) < n THEN Len(s) ELSE n)

\* chart_history.json: absent, holding a JSON list, or cut short by a write
\* that failed half-way, which json.load refuses.
NoHistoryFile == [state |-> "absent", entries |-> <<>>]
HistoryFile(entries) == [state |-> "list", entries |-> entries]
BrokenHistoryFile == [state |-> "broken", entries |-> <<>>]

load_chart_history(file) == IF file.state = "list" THEN file.entries ELSE <<>>

\* str(product).
Str(c) == IF c.t = "str" THEN c.s ELSE ToString(AsInt(c.n))

\* The entry of one call: uuid4 and now() are the clock of the model.
Entry(now, labels, values, revenue, product, time_mode, filename) ==
    [id |-> now, timestamp |-> now, labels |-> labels, values |-> values,
     revenue |-> revenue, product |-> Str(product), time_mode |-> time_mode,
     filename |-> filename]

\* The entry put at the tail of the list.
Appended(history, entry) == Append(history, entry)

\* history.insert(0, entry).
Insert(history, entry) == <<entry>> \o history

\* history = history[:20].
Capped(history) == Take(history, HistoryCap)

\* The states of the disk under BASE_DIR: a write succeeds ("ok"), open()
\* fails ("readonly"), or the file is opened, hence emptied, and the dump
\* fails ("full").
DiskStates == {"ok", "readonly", "full"}

\* The file save_chart_to_history leaves (app.py:119-137): the new list; the
\* old file, when it cannot be opened; a file cut short, when the dump fails.
\* Either failure is swallowed.
save_chart_to_history(file, entry, state) ==
    LET history == Capped(Insert(load_chart_history(file), entry))
    IN CASE state = "ok" -> HistoryFile(history)
         [] state = "readonly" -> file
         [] state = "full" -> BrokenHistoryFile

\* No call of save_chart_to_history is under way between two requests: a
\* request that is alone runs the call from its load to its write.
NoCalls == <<>>

----------------------------------------------------------------------------
(* The uploaded tables and the forms of the model.                         *)

\* All the sequences that take their j-th element in cells[j].
RECURSIVE Product(_)
Product(cells) ==
    IF cells = <<>> THEN {<<>>}
    ELSE {Append(front, last) :
            front \in Product(SubSeq(cells, 1, Len(cells) - 1)),
            last \in cells[Len(cells)]}

Unset == {""}

\* The sheets: a header as written in the file, the texts a cell of each
\* column takes, the most rows of a table, and what the form submits when
\* this sheet is the one uploaded: the file token (as issued, or behind one
\* of the paths, or one of the stale tokens), the time mode and the column
\* name of each role.
Sheets ==
    << [filename |-> "dates.csv", depth |-> MaxRows,
        header |-> <<"Product", " Total", "Date ">>,
        cells |-> <<{"A"}, {"2", "-2", "x"},
                    {"2024-02-01", "2024-01-05", "bogus"}>>,
        paths |-> {""}, stale |-> {},
        time_mode |-> {"weekly"},
        form |-> [product_col |-> {"Product"}, total_col |-> {"total"},
                  quantity_col |-> Unset, price_col |-> Unset,
                  date_col |-> {"date", ""}, year_col |-> Unset,
                  month_col |-> Unset]],
       [filename |-> "months.csv", depth |-> MaxRows - 1,
        header |-> <<"product", "total", " Month">>,
        cells |-> <<{"A"}, {"1", "-2"},
                    {"Jan", "February", "Apr", "13", "1.5", "12.5", "bogus"}>>,
        paths |-> {""}, stale |-> {},
        time_mode |-> {"month"},
        form |-> [product_col |-> {"product"}, total_col |-> {"total"},
                  quantity_col |-> Unset, price_col |-> Unset,
                  date_col |-> Unset, year_col |-> Unset,
                  month_col |-> {"month", ""}]],
       [filename |-> "periods.csv", depth |-> MaxRows - 1,
        header |-> <<"product", "total", "year", "month">>,
        cells |-> <<{"A"}, {"1", "-2"}, {"2024.5", "2023", "x"},
                    {"Jan", "13"}>>,
        paths |-> {""}, stale |-> {},
        time_mode |-> {"year_month", "year"},
        form |-> [product_col |-> {"product"}, total_col |-> {"total"},
                  quantity_col |-> Unset, price_col |-> Unset,
                  date_col |-> Unset, year_col |-> {"year", ""},
                  month_col |-> {"month", ""}]],
       [filename |-> "derive.csv", depth |-> MaxRows - 1,
        header |-> <<"product", "total", "qty", "price", "date">>,
        cells |-> <<{"A", ""}, {"2", "x"}, {"1.5", ""}, {"3"},
                    {"2024-01-05"}>>,
        paths |-> {""}, stale |-> {},
        time_mode |-> {"date"},
        form |-> [product_col |-> {"product", "", "nosuch"},
                  total_col |-> {"total", "", "nosuch"},
                  quantity_col |-> {"qty", ""}, price_col |-> {"price", ""},
                  date_col |-> {"date"}, year_col |-> Unset,
                  month_col |-> Unset]],
       [filename |-> "tokens.csv", depth |-> MaxRows - 1,
        header |-> <<"product", "total", "date">>,
        cells |-> <<{"A"}, {"2"}, {"2024-01-05"}>>,
        paths |-> {"", "x/"}, stale |-> {"", "gone"},
        time_mode |-> {"date"},
        form |-> [product_col |-> {"product"}, total_col |-> {"total"},
                  quantity_col |-> Unset, price_col |-> Unset,
                  date_col |-> {"date"}, year_col |-> Unset,
                  month_col |-> Unset]],
       [filename |-> "blank.csv", depth |-> MaxRows - 1,
        header |-> <<"product", " ", "price", "total">>,
        cells |-> <<{"A"}, {"1", "2", "2024"}, {"3"}, {"1"}>>,
        paths |-> {""}, stale |-> {},
        time_mode |-> {"date", "year_month", "year", "month"},
        form |-> [product_col |-> {"product"}, total_col |-> {"total", ""},
                  quantity_col |-> {"", " "}, price_col |-> {"price", ""},
                  date_col |-> Unset, year_col |-> Unset,
                  month_col |-> Unset]],
       [filename |-> "leaders.csv", depth |-> MaxRows,
        header |-> <<"product", "total", "Quantity", "date">>,
        cells |-> <<{"A", "B"}, {"1", "3"}, {"3", ""}, {"2024-01-05"}>>,
        paths |-> {""}, stale |-> {},
        time_mode |-> {"date"},
        form |-> [product_col |-> {"product"}, total_col |-> {"total"},
                  quantity_col |-> {"Quantity", ""}, price_col |-> Unset,
                  date_col |-> {"date"}, year_col |-> Unset,
                  month_col |-> Unset]] >>

SheetOf(filename) ==
    Sheets[CHOOSE k \in 1..Len(Sheets) : Sheets[k].filename = filename]

\* The files of a sheet: every table of at most its depth of rows.
TablesOf(sheet) ==
    {[filename |-> sheet.filename, readable |-> TRUE, header |-> sheet.header,
      rows |-> rows] :
        rows \in UNION {[1..n -> Product(sheet.cells)] : n \in 0..sheet.depth}}

\* A file read_csv refuses: it holds no line.
EmptyFile ==
    [filename |-> "tokens.csv", readable |-> FALSE, header |-> <<>>,
     rows |-> <<>>]

\* f"{uuid.uuid4().hex}_{file.filename}" (app.py:280).
Token(now, filename) == ToString(now) \o "_" \o filename

\* The forms submitted for an uploaded file.
FormsOf(upload) ==
    LET sheet == SheetOf(upload.file.filename)
    IN [file_token : {path \o upload.name : path \in sheet.paths}
                        \cup sheet.stale,
        time_mode : sheet.time_mode,
        product_col : sheet.form.product_col,
        total_col : sheet.form.total_col,
        quantity_col : sheet.form.quantity_col,
        price_col : sheet.form.price_col,
        date_col : sheet.form.date_col,
        year_col : sheet.form.year_col,
        month_col : sheet.form.month_col]

----------------------------------------------------------------------------
(* The requests.                                                           *)

\* os.path.join(BASE_DIR, "uploads") and os.path.join(BASE_DIR, "output").
DefaultUploads == "/app/uploads"
DefaultOutput == "/app/output"

NoPage ==
    [page |-> "", error |-> "", form |-> FALSE, columns |-> <<>>,
     file_token |-> "", defaults |-> NoDefaults, selected_mode |-> "",
     result |-> FALSE, revenue |-> 0, product |-> NaN, labels |-> <<>>,
     values |-> <<>>, used_basis |-> "",
     success |-> ""]

NoForm ==
    [file_token |-> "", time_mode |-> "", product_col |-> "",
     total_col |-> "", quantity_col |-> "", price_col |-> "",
     date_col |-> "", year_col |-> "", month_col |-> ""]

\* The page of an exception no handler catches.
ServerError ==
    [page |-> "500", error |-> "Internal Server Error", form |-> FALSE,
     columns |-> <<>>, file_token |-> "", defaults |-> NoDefaults,
     selected_mode |-> "", result |-> FALSE, revenue |-> 0, product |-> NaN,
     labels |-> <<>>, values |-> <<>>, used_basis |-> "",
     success |-> ""]

\* f"sales_report_{timestamp}.xlsx" and f"summary_{timestamp}.pdf".
ExcelName(now) == "sales_report_" \o ToString(now) \o ".xlsx"
PdfName(now) == "summary_" \o ToString(now) \o ".pdf"

\* The files a finished aggregation writes to the output folder
\* (app.py:480-496).
Reports(folder, now) ==
    {[dir |-> folder, name |-> ExcelName(now)],
     [dir |-> folder, name |-> PdfName(now)],
     [dir |-> folder, name |-> "sales_report.xlsx"],
     [dir |-> folder, name |-> "summary.pdf"]}

\* The same files in the order they are written: to_excel, doc.build, and
\* the two copyfile calls (app.py:486-495).
ReportWrites(folder, now) ==
    <<[dir |-> folder, name |-> ExcelName(now)],
      [dir |-> folder, name |-> PdfName(now)],
      [dir |-> folder, name |-> "sales_report.xlsx"],
      [dir |-> folder, name |-> "summary.pdf"]>>

\* The files written when the write after the first n raises.
Written(folder, now, n) == {ReportWrites(folder, now)[k] : k \in 1..n}

\* The report writes of one request.
AllWrites == Len(ReportWrites(DefaultOutput, 0))

\* A request that renders a page and writes nothing.
Render(page) ==
    /\ response' = page
    /\ UNCHANGED <<UPLOAD_FOLDER, OUTPUT_FOLDER, configFile, dirs, uploads,
                   outputs, chartHistoryFile, disk>>

\* The history entry recorded before the reports are written.
RecordedFirst(page) ==
    IF OUTPUT_FOLDER \notin dirs THEN Render(ServerError)
    ELSE /\ outputs' = outputs \cup Written(OUTPUT_FOLDER, clock, disk.writes)
         /\ chartHistoryFile' =
               save_chart_to_history(
                   chartHistoryFile,
                   Entry(clock, page.labels, page.values, page.revenue,
                         page.product, page.selected_mode, ExcelName(clock)),
                   disk.state)
         /\ response' = IF disk.writes < AllWrites THEN ServerError ELSE page
         /\ UNCHANGED <<UPLOAD_FOLDER, OUTPUT_FOLDER, configFile, dirs,
                        uploads, disk>>

\* The reports and the history entry of a finished aggregation
\* (app.py:480-499); to_excel raises when the output folder does not exist.
Recorded(page) ==
    IF OUTPUT_FOLDER \notin dirs THEN Render(ServerError)
    ELSE IF disk.writes < AllWrites
    THEN /\ outputs' = outputs \cup Written(OUTPUT_FOLDER, clock, disk.writes)
         /\ response' = ServerError
         /\ UNCHANGED <<UPLOAD_FOLDER, OUTPUT_FOLDER, configFile, dirs,
                        uploads, chartHistoryFile, disk>>
    ELSE /\ outputs' = outputs \cup Reports(OUTPUT_FOLDER, clock)
         /\ chartHistoryFile' =
               save_chart_to_history(
                   chartHistoryFile,
                   Entry(clock, page.labels, page.values, page.revenue,
                         page.product, page.selected_mode, ExcelName(clock)),
                   disk.state)
         /\ response' = page
         /\ UNCHANGED <<UPLOAD_FOLDER, OUTPUT_FOLDER, configFile, dirs,
                        uploads, disk>>

Finished(agg) == IF agg.done THEN Recorded(agg.page) ELSE Render(agg.page)

\* os.path.basename(file_token): a token is submitted as issued or behind
\* the directory "x/", which basename drops.  Only the names of the saved
\* files matter: any other token names no file, with or without "x/".
Basename(s) ==
    IF \E u \in uploads : s = "x/" \o u.name
    THEN (CHOOSE u \in uploads : s = "x/" \o u.name).name
    ELSE s

\* The uploaded files the token names (app.py:314-315).
Found(file_token) ==
    {u \in uploads : u.dir = UPLOAD_FOLDER /\ u.name = Basename(file_token)}

Opened(file, form) ==
    IF ~file.readable THEN Render(ErrorPage(UnreadableFile))
    ELSE Finished(Aggregate(read_csv_flexible(file), form))

\* POST / with action=process_data (app.py:309-512).
process_data(form) ==
    IF form.file_token = "" THEN Render(ErrorPage(SessionExpired))
    ELSE IF Found(form.file_token) = {} THEN Render(ErrorPage(FileNotFound))
    ELSE Opened((CHOOSE u \in Found(form.file_token) : TRUE).file, form)

ProcessData ==
    \E upload \in uploads : \E form \in FormsOf(upload) :
        /\ request' = form
        /\ clock' = clock + 1
        /\ process_data(form)
        /\ UNCHANGED calls

----------------------------------------------------------------------------
(* SpecAgg: one process_data request on one uploaded file, for every table *)
(* of the sheets and every form.                                           *)

\* The disk as it starts: writes succeed.  state is how chart_history.json
\* and config.json take a write, writes how many report files a request
\* writes before a write raises, failures how often either has gone wrong.
SoundDisk == [state |-> "ok", failures |-> 0, writes |-> AllWrites]

AllFiles == UNION {TablesOf(Sheets[k]) : k \in 1..Len(Sheets)} \cup {EmptyFile}

NoConfigFile == [state |-> "absent", upload_folder |-> "", output_folder |-> ""]

InitAgg ==
    /\ UPLOAD_FOLDER = DefaultUploads
    /\ OUTPUT_FOLDER = DefaultOutput
    /\ configFile = NoConfigFile
    /\ dirs = {DefaultUploads, DefaultOutput}
    /\ \E file \in AllFiles :
          uploads = {[dir |-> DefaultUploads, name |-> Token(0, file.filename),
                      file |-> file]}
    /\ outputs = {}
    /\ chartHistoryFile = NoHistoryFile
    /\ disk = SoundDisk
    /\ request = NoForm
    /\ response = NoPage
    /\ clock = 0
    /\ calls = NoCalls

NextAgg == clock = 0 /\ ProcessData

SpecAgg == InitAgg /\ [][NextAgg]_vars

----------------------------------------------------------------------------
(* The disk under BASE_DIR.                                                *)

\* The disk stops taking writes: open() fails, or the dump does.
DiskFails ==
    /\ disk.state = "ok"
    /\ disk.failures < MaxDiskFailures
    /\ \E state \in DiskStates \ {"ok"} :
          disk' = [disk EXCEPT !.state = state, !.failures = @ + 1]
    /\ UNCHANGED <<UPLOAD_FOLDER, OUTPUT_FOLDER, configFile, dirs, uploads,
                   outputs, chartHistoryFile, request, response, clock, calls>>

\* A report file stops taking writes (the output folder is full, or the
\* latest copy is open in a viewer that locks it): the requests write the
\* report files before it and raise.
ReportsFail ==
    /\ disk.writes = AllWrites
    /\ disk.failures < MaxDiskFailures
    /\ \E n \in 0..(AllWrites - 1) :
          disk' = [disk EXCEPT !.writes = n, !.failures = @ + 1]
    /\ UNCHANGED <<UPLOAD_FOLDER, OUTPUT_FOLDER, configFile, dirs, uploads,
                   outputs, chartHistoryFile, request, response, clock, calls>>

\* The disk takes writes again.
DiskRecovers ==
    /\ disk.state # "ok" \/ disk.writes # AllWrites
    /\ disk' = [disk EXCEPT !.state = "ok", !.writes = AllWrites]
    /\ UNCHANGED <<UPLOAD_FOLDER, OUTPUT_FOLDER, configFile, dirs, uploads,
                   outputs, chartHistoryFile, request, response, clock, calls>>

----------------------------------------------------------------------------
(* SpecHistory: successive aggregations of one uploaded file, each recorded *)
(* to the history, on a disk that may fail.                                *)

\* The tables of one row of a sheet.
OneRowTables(sheet) == {file \in TablesOf(sheet) : Len(file.rows) = 1}

\* A table whose aggregation succeeds under every form of its sheet: one
\* sale of product A.
Recordable ==
    {file \in OneRowTables(SheetOf("leaders.csv")) :
        file.rows[1] = <<"A", "3", "3", "2024-01-05">>}

InitHistory ==
    /\ UPLOAD_FOLDER = DefaultUploads
    /\ OUTPUT_FOLDER = DefaultOutput
    /\ configFile = NoConfigFile
    /\ dirs = {DefaultUploads, DefaultOutput}
    /\ \E file \in Recordable :
          uploads = {[dir |-> DefaultUploads, name |-> Token(0, file.filename),
                      file |-> file]}
    /\ outputs = {}
    /\ chartHistoryFile = NoHistoryFile
    /\ disk = SoundDisk
    /\ request = NoForm
    /\ response = NoPage
    /\ clock = 0
    /\ calls = NoCalls

NextHistory ==
    \/ clock < MaxSaves /\ ProcessData
    \/ DiskFails
    \/ DiskRecovers

SpecHistory == InitHistory /\ [][NextHistory]_vars

----------------------------------------------------------------------------
(* SpecFrame: process_data requests on three uploaded files, one whose      *)
(* aggregation succeeds and two whose aggregation fails, on a disk that may *)
(* fail.                                                                    *)

\* One sale each: a sound one, one whose date is no date, one whose total is
\* no number.
Framed ==
    <<[filename |-> "dates.csv", readable |-> TRUE,
       header |-> SheetOf("dates.csv").header,
       rows |-> << <<"A", "2", "2024-01-05">> >>],
      [filename |-> "dates.csv", readable |-> TRUE,
       header |-> SheetOf("dates.csv").header,
       rows |-> << <<"A", "2", "bogus">> >>],
      [filename |-> "dates.csv", readable |-> TRUE,
       header |-> SheetOf("dates.csv").header,
       rows |-> << <<"A", "x", "2024-01-05">> >>]>>

InitFrame ==
    /\ UPLOAD_FOLDER = DefaultUploads
    /\ OUTPUT_FOLDER = DefaultOutput
    /\ configFile = NoConfigFile
    /\ dirs = {DefaultUploads, DefaultOutput}
    /\ uploads = {[dir |-> DefaultUploads,
                   name |-> Token(k, Framed[k].filename), file |-> Framed[k]] :
                      k \in 1..Len(Framed)}
    /\ outputs = {}
    /\ chartHistoryFile = NoHistoryFile
    /\ disk = SoundDisk
    /\ request = NoForm
    /\ response = NoPage
    /\ clock = 0
    /\ calls = NoCalls

NextFrame ==
    \/ clock < MaxRequests /\ ProcessData
    \/ DiskFails
    \/ ReportsFail
    \/ DiskRecovers

SpecFrame == InitFrame /\ [][NextFrame]_vars

----------------------------------------------------------------------------
(* SpecRace: two requests that have written their reports call             *)
(* save_chart_to_history at once.  A call loads the file (app.py:119),     *)
(* builds its list (app.py:120-132), opens the file for writing, which     *)
(* empties it (app.py:134), and dumps the list (app.py:135); the steps of   *)
(* the two calls interleave in any order.  The clock ticks at every step.  *)

Callers == {1, 2}

\* The result pages the calls record: the aggregations of the recordable
\* table.
Charts ==
    UNION {{Aggregate(read_csv_flexible(file), form).page :
               form \in FormsOf([dir |-> DefaultUploads,
                                 name |-> Token(0, file.filename),
                                 file |-> file])} :
           file \in Recordable}

\* n entries recorded before the calls, the newest at the head.
Earlier(n) ==
    [j \in 1..n |-> Entry(0 - j, <<>>, <<>>, 0, StrCell("A"), "date",
                          ExcelName(0 - j))]

\* The entry of a call that has loaded: its id and timestamp are taken once
\* the history is loaded (app.py:120-129).
EntryOf(call) ==
    Entry(call.now, call.chart.labels, call.chart.values, call.chart.revenue,
          call.chart.product, call.chart.selected_mode, ExcelName(0))

\* The list of a call that has loaded (app.py:130-132).
Updated(call) == Capped(Insert(call.history, EntryOf(call)))

\* The dump merges the entry into what the file holds when it is written.
DumpedMerged(file, call) ==
    {HistoryFile(Capped(Insert(load_chart_history(file), EntryOf(call))))}

\* The files the dump of a call may leave (app.py:135).  The call has
\* emptied the file when it opened it; if the other call has dumped its list
\* since, the bytes of this dump are written over that list from the start
\* of the file, and what is left of a longer list behind them makes the file
\* unreadable.
Dumped(file, call) ==
    IF file.state = "list"
    THEN {HistoryFile(Updated(call)), BrokenHistoryFile}
    ELSE {HistoryFile(Updated(call))}

\* history = load_chart_history() and the entry (app.py:119-132).
Load(p) ==
    /\ calls[p].at = "called"
    /\ calls' = [calls EXCEPT ![p] =
                    [@ EXCEPT !.at = "loaded", !.now = clock,
                              !.history = load_chart_history(chartHistoryFile)]]
    /\ clock' = clock + 1
    /\ UNCHANGED <<UPLOAD_FOLDER, OUTPUT_FOLDER, configFile, dirs, uploads,
                   outputs, chartHistoryFile, disk, request, response>>

\* open(CHART_HISTORY_FILE, "w") (app.py:134).
Open(p) ==
    /\ calls[p].at = "loaded"
    /\ chartHistoryFile' = BrokenHistoryFile
    /\ calls' = [calls EXCEPT ![p] = [@ EXCEPT !.at = "opened",
                                               !.opened = clock]]
    /\ clock' = clock + 1
    /\ UNCHANGED <<UPLOAD_FOLDER, OUTPUT_FOLDER, configFile, dirs, uploads,
                   outputs, disk, request, response>>

\* json.dump(history, f, indent=2) and the close of the file (app.py:135).
Dump(p) ==
    /\ calls[p].at = "opened"
    /\ chartHistoryFile' \in Dumped(chartHistoryFile, calls[p])
    /\ calls' = [calls EXCEPT ![p] = [@ EXCEPT !.at = "returned",
                                               !.wrote = clock]]
    /\ clock' = clock + 1
    /\ UNCHANGED <<UPLOAD_FOLDER, OUTPUT_FOLDER, configFile, dirs, uploads,
                   outputs, disk, request, response>>

InitRace ==
    /\ UPLOAD_FOLDER = DefaultUploads
    /\ OUTPUT_FOLDER = DefaultOutput
    /\ configFile = NoConfigFile
    /\ dirs = {DefaultUploads, DefaultOutput}
    /\ uploads = {}
    /\ outputs = Reports(DefaultOutput, 0)
    /\ chartHistoryFile \in {NoHistoryFile, BrokenHistoryFile}
           \cup {HistoryFile(Earlier(n)) : n \in 0..HistoryCap}
    /\ disk = SoundDisk
    /\ request = NoForm
    /\ response = NoPage
    /\ clock = 0
    /\ \E charts \in [Callers -> Charts] :
          calls = [p \in Callers |->
                      [at |-> "called", chart |-> charts[p], history |-> <<>>,
                       now |-> 0, opened |-> 0, wrote |-> 0]]

NextRace ==
    \/ \E p \in Callers : Load(p)
    \/ \E p \in Callers : Open(p)
    \/ \E p \in Callers : Dump(p)

SpecRace == InitRace /\ [][NextRace]_vars

----------------------------------------------------------------------------
(* The storage paths: app.py:21-68 and settings_page, app.py:546-567.      *)

\* What the settings form submits for a folder: nothing, a blank, a path
\* relative to BASE_DIR, an absolute path, and an absolute path under which
\* no directory can be made.
StorageInputs == {"", " ", "data", "/mnt/reports", "/proc/x"}

\* str.strip() on the paths of the model.
Strip(s) == IF s = " " THEN "" ELSE s

\* os.path.isabs on the paths of the model.
IsAbs(s) == s \in {"/mnt/reports", "/proc/x"}

\* os.path.join(BASE_DIR, name).
UnderBase(name) == "/app/" \o name

normalize_storage_path(path_value, fallback_name) ==
    IF path_value = "" THEN UnderBase(fallback_name)
    ELSE IF Strip(path_value) = "" THEN UnderBase(fallback_name)
    ELSE IF IsAbs(Strip(path_value)) THEN Strip(path_value)
    ELSE UnderBase(Strip(path_value))

\* os.makedirs(path, exist_ok=True) returns; it raises where no directory can
\* be made.
Creatable(path) == path # "/proc/x"

\* apply_storage_paths: the globals are assigned, then the directories made,
\* the upload folder first; the first makedirs that raises ends the call.
apply_storage_paths(upload_folder, output_folder) ==
    [UPLOAD_FOLDER |-> upload_folder,
     OUTPUT_FOLDER |-> output_folder,
     dirs |-> IF ~Creatable(upload_folder) THEN dirs
              ELSE IF ~Creatable(output_folder) THEN dirs \cup {upload_folder}
              ELSE dirs \cup {upload_folder, output_folder},
     raised |-> ~Creatable(upload_folder) \/ ~Creatable(output_folder)]

\* config.json once written, and once cut short by a dump that failed.
ConfigFile(upload_folder, output_folder) ==
    [state |-> "saved", upload_folder |-> upload_folder,
     output_folder |-> output_folder]

BrokenConfigFile ==
    [state |-> "broken", upload_folder |-> "", output_folder |-> ""]

\* The file save_storage_config leaves, by the state of the disk.
save_storage_config(upload_folder, output_folder, state) ==
    CASE state = "ok" -> ConfigFile(upload_folder, output_folder)
      [] state = "readonly" -> configFile
      [] state = "full" -> BrokenConfigFile

StorageUpdated == "Storage paths updated successfully."

StorageError ==
    "Unable to update storage paths. Please verify folder paths and permissions."

\* render_template("settings.html", success=...) or (..., error=...).
SettingsPage(success, error) ==
    [page |-> "settings", error |-> error, form |-> FALSE, columns |-> <<>>,
     file_token |-> "", defaults |-> NoDefaults, selected_mode |-> "",
     result |-> FALSE, revenue |-> 0, product |-> NaN, labels |-> <<>>,
     values |-> <<>>, used_basis |-> "", success |-> success]

\* The page of a settings POST whose apply_storage_paths ended as given.
SettingsResult(applied) ==
    IF applied.raised \/ disk.state # "ok"
    THEN SettingsPage("", StorageError)
    ELSE SettingsPage(StorageUpdated, "")

\* The state a settings POST leaves, given the normalised folders.
Stored(upload_folder, output_folder, applied) ==
    /\ UPLOAD_FOLDER' = applied.UPLOAD_FOLDER
    /\ OUTPUT_FOLDER' = applied.OUTPUT_FOLDER
    /\ dirs' = applied.dirs
    /\ configFile' =
          IF applied.raised THEN configFile
          ELSE save_storage_config(upload_folder, output_folder, disk.state)
    /\ response' = SettingsResult(applied)
    /\ UNCHANGED <<uploads, outputs, chartHistoryFile, disk>>

\* POST /settings (app.py:548-564).
settings_page(upload_folder_input, output_folder_input) ==
    Stored(normalize_storage_path(upload_folder_input, "uploads"),
           normalize_storage_path(output_folder_input, "output"),
           apply_storage_paths(
               normalize_storage_path(upload_folder_input, "uploads"),
               normalize_storage_path(output_folder_input, "output")))

\* A settings form.
SettingsPost ==
    \E upload_folder_input \in StorageInputs :
        \E output_folder_input \in StorageInputs :
            /\ request' = [upload_folder |-> upload_folder_input,
                           output_folder |-> output_folder_input]
            /\ clock' = clock + 1
            /\ settings_page(upload_folder_input, output_folder_input)
            /\ UNCHANGED calls

----------------------------------------------------------------------------
(* The read_columns branch of index(): app.py:275-307.                     *)

PleaseUpload == "Please upload a file first."
UnreadableCsv == "Unable to read CSV file."

\* request.files.get("file") of a form without a file.
NoFile == [filename |-> "", readable |-> FALSE, header |-> <<>>, rows |-> <<>>]

\* guess_column: the first of the preferred names that is a column, else "".
guess_column(columns, preferred_names) ==
    IF \E k \in 1..Len(preferred_names) : preferred_names[k] \in Range(columns)
    THEN preferred_names[CHOOSE k \in 1..Len(preferred_names) :
            /\ preferred_names[k] \in Range(columns)
            /\ \A j \in 1..(k - 1) : preferred_names[j] \notin Range(columns)]
    ELSE ""

\* The defaults read_columns proposes (app.py:291-299).
Guessed(columns) ==
    [product_col |-> guess_column(columns, <<"product", "item", "product_name">>),
     total_col |->
        guess_column(columns, <<"total", "amount", "revenue", "sales">>),
     quantity_col |-> guess_column(columns, <<"quantity", "qty", "units">>),
     price_col |-> guess_column(columns, <<"price", "unit_price", "rate">>),
     date_col |->
        guess_column(columns, <<"date", "order_date", "invoice_date">>),
     year_col |-> guess_column(columns, <<"year">>),
     month_col |-> guess_column(columns, <<"month">>)]

\* The page of the columns of an uploaded file (app.py:301-307).
ColumnsPage(columns, file_token) ==
    FormErrorPage("", columns, file_token, Guessed(columns), "date")

\* The page once the file is saved.
Probed(file, file_token) ==
    IF ~file.readable THEN ErrorPage(UnreadableCsv)
    ELSE ColumnsPage(read_csv_flexible(file).columns, file_token)

\* POST / with action=read_columns: file.save raises when the upload folder
\* does not exist.
read_columns(file) ==
    IF file.filename = "" THEN Render(ErrorPage(PleaseUpload))
    ELSE IF UPLOAD_FOLDER \notin dirs THEN Render(ServerError)
    ELSE /\ uploads' = uploads \cup
               {[dir |-> UPLOAD_FOLDER, name |-> Token(clock, file.filename),
                 file |-> file]}
         /\ response' = Probed(file, Token(clock, file.filename))
         /\ UNCHANGED <<UPLOAD_FOLDER, OUTPUT_FOLDER, configFile, dirs,
                        outputs, chartHistoryFile, disk>>

\* The files a user uploads: no file, a file that cannot be read, a sale.
Uploadable == {NoFile, EmptyFile} \cup Recordable

ReadColumns ==
    \E file \in Uploadable :
        /\ request' = [action |-> "read_columns", filename |-> file.filename]
        /\ clock' = clock + 1
        /\ read_columns(file)
        /\ UNCHANGED calls

----------------------------------------------------------------------------
(* Spec: the application, from its start, for a bounded number of requests. *)

\* The state once the module is loaded: no config.json, so the default
\* folders, which apply_storage_paths makes (app.py:141-142).
Init ==
    /\ UPLOAD_FOLDER = DefaultUploads
    /\ OUTPUT_FOLDER = DefaultOutput
    /\ configFile = NoConfigFile
    /\ dirs = {DefaultUploads, DefaultOutput}
    /\ uploads = {}
    /\ outputs = {}
    /\ chartHistoryFile = NoHistoryFile
    /\ disk = SoundDisk
    /\ request = NoForm
    /\ response = NoPage
    /\ clock = 0
    /\ calls = NoCalls

Next ==
    \/ clock < MaxRequests /\ ReadColumns
    \/ clock < MaxRequests /\ ProcessData
    \/ clock < MaxRequests /\ SettingsPost
    \/ DiskFails
    \/ ReportsFail
    \/ DiskRecovers

Spec == Init /\ [][Next]_vars

----------------------------------------------------------------------------
(* What the claims read of a state: the table and the form of the last     *)
(* request, and the rows of the table as the specification sorts them.     *)

\* The last request was a process_data request that read its table.
TableRead == response.page = "index" /\ response.form

\* The file of the request.
TableFile == (CHOOSE u \in Found(request.file_token) : TRUE).file

ReadTable == read_csv_flexible(TableFile)

TableColumns == Range(ColumnsOf(TableFile.header))

Mapping == DefaultsOf(request)

Mode == TimeModeOf(request)

\* A role is set: its column name is not empty and names a column.
IsSet(role) == Mapping[role] # "" /\ Mapping[role] \in TableColumns

ProductValid == IsSet("product_col")

RevenueValid ==
    IsSet("total_col") \/ (IsSet("quantity_col") /\ IsSet("price_col"))

\* The roles the time mode reads.
TimeRoles ==
    CASE Mode = "date" -> {"date_col"}
      [] Mode = "year_month" -> {"year_col", "month_col"}
      [] Mode = "year" -> {"year_col"}
      [] Mode = "month" -> {"month_col"}

TimeValid == \A role \in TimeRoles : IsSet(role)

\* A column the time mode reads is not among the columns of the table.
TimeColumnAbsent == \E role \in TimeRoles : Mapping[role] \notin TableColumns

\* The cell of a row under a column name, NaN when the table has no such
\* column.
CellOf(row, name) == IF name \in DOMAIN row THEN row[name] ELSE NaN

\* The total of a row: the total column, else quantity x price.
RowTotal(row, map) ==
    IF map.total_col # "" /\ map.total_col \in DOMAIN row
    THEN ToNumeric(row[map.total_col])
    ELSE Times(ToNumeric(CellOf(row, map.quantity_col)),
               ToNumeric(CellOf(row, map.price_col)))

\* The quantity of a row in the frame the best product is chosen from: the
\* numeric cast of the mapped quantity column, else the cell of the table's
\* own column named quantity, else none.
RowQuantity(row, map) ==
    IF map.quantity_col \in DOMAIN row THEN ToNumeric(row[map.quantity_col])
    ELSE CellOf(row, "quantity")

\* The month number of a row, NaN when it has none in 1..12.
RowMonth(row, map) ==
    LET m == parse_month_to_number(CellOf(row, map.month_col))
    IN IF notna(m) /\ m.n >= Fixed(1) /\ m.n <= Fixed(12)
       THEN NumCell(AsInt(m.n))
       ELSE NaN

\* The year of a row, NaN when it has none.
RowYear(row, map) ==
    LET y == ToNumeric(CellOf(row, map.year_col))
    IN IF notna(y) THEN NumCell(AsInt(y.n)) ELSE NaN

\* The date of a row, NaN when it has none.
RowDate(row, map) == ToDatetime(CellOf(row, map.date_col))

\* The period key of a row under the time mode, NaN when it has none.
RowKey(row, map, mode) ==
    CASE mode = "date" ->
            IF notna(RowDate(row, map))
            THEN NumCell(RowDate(row, map).n \div 31)
            ELSE NaN
      [] mode = "year_month" ->
            IF notna(RowYear(row, map)) /\ notna(RowMonth(row, map))
            THEN NumCell(RowYear(row, map).n * 12 + RowMonth(row, map).n - 1)
            ELSE NaN
      [] mode = "year" -> RowYear(row, map)
      [] mode = "month" -> RowMonth(row, map)

\* The rows of the table read, each with its product, total, quantity and
\* period key.
LedgerOf(rows, map, mode) ==
    [i \in 1..Len(rows) |->
        [product |-> CellOf(rows[i], map.product_col),
         total |-> RowTotal(rows[i], map),
         quantity |-> RowQuantity(rows[i], map),
         key |-> RowKey(rows[i], map, mode)]]

Ledger == LedgerOf(ReadTable.df.rows, Mapping, Mode)

\* The rows that have a product and a total.
Kept(L) == {i \in DOMAIN L : notna(L[i].product) /\ notna(L[i].total)}

\* The kept rows with a period key, and those without.
Bucketable(L) == {i \in Kept(L) : notna(L[i].key)}
Unbucketable(L) == {i \in Kept(L) : ~notna(L[i].key)}

\* The sum of the totals of a set of rows.
TotalOf(L, S) == SumOver([i \in DOMAIN L |-> L[i].total.n], S)

\* The sum of the values of the page.
ValuesSum == SumOver(response.values, 1..Len(response.values))

\* The period keys of the bucketable rows.
Periods(L) == {L[i].key.n : i \in Bucketable(L)}

\* The periods in ascending order.
Ascending(P) ==
    [j \in 1..Cardinality(P) |->
        CHOOSE k \in P : Cardinality({q \in P : q < k}) = j - 1]

\* A kept row has a quantity.
QuantityKnown(L) == \E i \in Kept(L) : notna(L[i].quantity)

\* The products of the kept rows.
Products(L) == {L[i].product : i \in Kept(L)}

\* The sum of the totals of each product.
Revenues(L) ==
    [p \in Products(L) |-> TotalOf(L, {i \in Kept(L) : L[i].product = p})]

\* The sum of the quantities of each product.
Quantities(L) ==
    [p \in Products(L) |->
        SumOver([i \in DOMAIN L |-> Addend(L[i].quantity)],
                {i \in Kept(L) : L[i].product = p})]

\* The sums the products are ranked by: of quantity when a kept row has one,
\* else of total.
Scores(L) == IF QuantityKnown(L) THEN Quantities(L) ELSE Revenues(L)

\* The products with the greatest of the sums.
Greatest(sums) == {p \in DOMAIN sums : \A q \in DOMAIN sums : sums[q] <= sums[p]}

\* The product of a set that is met first in row order.
FirstMet(L, P) ==
    L[CHOOSE i \in Kept(L) :
        /\ L[i].product \in P
        /\ \A j \in Kept(L) : L[j].product \in P => i <= j].product

----------------------------------------------------------------------------
(* The order of the failures of process_data.                              *)

\* The mapping passed the product and the revenue checks, and a column the
\* time mode reads is not among the columns of the table.
TimeColumnsLacking ==
    TableRead /\ ProductValid /\ RevenueValid /\ TimeColumnAbsent

----------------------------------------------------------------------------
(* The buckets and the total revenue.                                      *)

\* C2, as stated: on every successful aggregation the sum of the bucket
\* values is at most total_revenue, with equality exactly when no row was
\* dropped during time-bucketing.
C2_BucketsWithinRevenue ==
    response.result =>
        /\ ValuesSum <= response.revenue
        /\ ValuesSum = response.revenue <=> Unbucketable(Ledger) = {}

\* C2, amended: on every successful aggregation total_revenue less the sum of
\* the bucket values is the sum of the totals of the rows dropped during
\* time-bucketing, which is negative, zero or positive as those totals are.
C2_DroppedTotals ==
    response.result =>
        response.revenue - ValuesSum = TotalOf(Ledger, Unbucketable(Ledger))

\* A successful aggregation whose buckets sum to more than total_revenue: the
\* rows dropped during time-bucketing have a negative total.
C2_Witness ==
    /\ response.result
    /\ Unbucketable(Ledger) # {}
    /\ ValuesSum > response.revenue

----------------------------------------------------------------------------
(* The form state of the error pages.                                      *)

\* The page carries the form state of the request: the columns of the table,
\* the file token, the submitted mapping and the selected mode.
FormKept ==
    /\ response.form
    /\ response.file_token = request.file_token
    /\ response.columns = ReadTable.columns
    /\ response.defaults = Mapping
    /\ response.selected_mode = Mode

\* The page carries nothing of the form.
FormLost ==
    /\ ~response.form
    /\ response.columns = <<>>
    /\ response.file_token = ""
    /\ response.defaults = NoDefaults
    /\ response.selected_mode = ""

\* The failures found before the table is read, and those found after.
BeforeReadErrors == {SessionExpired, FileNotFound, UnreadableFile}

AfterReadErrors ==
    {MissingProductColumn, MissingRevenueColumns, NoValidRows,
     NoTimeValuesFound} \cup {MissingTimeColumns(mode) : mode \in TimeModes}

\* The last request failed.
Failed == response.page = "index" /\ response.error # ""

\* C5, as stated: every failure of a process_data request is reported with
\* the full prior form state.
C5_EveryErrorKeepsForm == Failed => FormKept

\* C5, amended: the failures found once the table is read are reported with
\* the full prior form state; SessionExpired, the missing uploaded file and
\* UnreadableFile are reported with the message alone.
C5_FormKeptOnceRead ==
    Failed =>
        /\ response.error \in BeforeReadErrors \cup AfterReadErrors
        /\ response.error \in AfterReadErrors => FormKept
        /\ response.error \in BeforeReadErrors => FormLost

\* A failure found after the read, reported with a mapping that is not
\* empty.
C5_Witness ==
    /\ Failed
    /\ response.error = NoTimeValuesFound
    /\ FormKept
    /\ response.defaults # NoDefaults

----------------------------------------------------------------------------
(* Blank role names.                                                       *)

\* C6: a role whose column name is empty or only whitespace is unset in every
\* check, also when the table has a column whose normalised name is empty:
\* with a valid product, a mapping without a set total and without a set
\* quantity and price fails with MissingRevenueColumns, and a mapping that
\* retains a row but leaves a role of the time mode unset fails with the
\* mode's MissingTimeColumns.
C6_BlankRoleIsUnset ==
    TableRead /\ ProductValid =>
        /\ ~RevenueValid => response.error = MissingRevenueColumns
        /\ RevenueValid /\ Kept(Ledger) # {} /\ ~TimeValid =>
              response.error = MissingTimeColumns(Mode)

----------------------------------------------------------------------------
(* The labels and the values.                                              *)

\* The sum of the totals of the bucketable rows of one period.
BucketOf(L, k) == TotalOf(L, {i \in Bucketable(L) : L[i].key.n = k})

\* The labels and values are those of the periods, one pair a period, in
\* the order of the periods.
InPeriodOrder(L, periods) ==
    /\ Len(response.labels) = Len(periods)
    /\ Len(response.values) = Len(periods)
    /\ \A j \in 1..Len(periods) :
          /\ response.labels[j] = LabelOf(Mode, NumCell(periods[j]))
          /\ response.values[j] = BucketOf(L, periods[j])
          /\ Mode = "month" =>
                /\ periods[j] \in 1..12
                /\ response.labels[j] = month_abbr[periods[j]]

\* C7: in every time mode the labels and values hold exactly one pair for
\* each distinct period key of the surviving rows, in strictly ascending
\* order of the key; in month mode the keys are month numbers 1..12 and the
\* labels are month abbreviations in calendar order.
C7_LabelsInPeriodOrder ==
    response.result => InPeriodOrder(Ledger, Ascending(Periods(Ledger)))

\* Month mode with April met before January: the labels are Jan, Apr, which
\* is neither the order of the rows nor that of the label texts.
C7_Witness ==
    /\ response.result
    /\ Mode = "month"
    /\ response.labels = <<"Jan", "Apr">>
    /\ Ledger[1].key = NumCell(4)

----------------------------------------------------------------------------
(* Row accounting.                                                         *)

\* The rows whose period has the label.
Labelled(L, label) ==
    {i \in Bucketable(L) : LabelOf(Mode, L[i].key) = label}

\* The revenue is the sum of the totals of the kept rows, and each value the
\* sum of the totals of the bucketable rows of its label.
Accounted(L) ==
    /\ response.revenue = TotalOf(L, Kept(L))
    /\ \A j \in 1..Len(response.labels) :
          response.values[j] = TotalOf(L, Labelled(L, response.labels[j]))
    /\ \A i \in Bucketable(L) :
          Cardinality({j \in 1..Len(response.labels) :
                          i \in Labelled(L, response.labels[j])}) = 1
    /\ \A i \in DOMAIN L \ Bucketable(L) :
          \A j \in 1..Len(response.labels) :
              i \notin Labelled(L, response.labels[j])

\* C8: a row without product or total counts in neither total_revenue nor a
\* bucket; a row with both but without a period key counts in total_revenue
\* and in no bucket; every other row counts in total_revenue and in exactly
\* one bucket.
C8_RowAccounting == response.result => Accounted(Ledger)

\* A table with a row of each kind, none with a total of zero.
C8_Witness ==
    /\ response.result
    /\ DOMAIN Ledger \ Kept(Ledger) # {}
    /\ \E i \in Unbucketable(Ledger) : Ledger[i].total.n # 0
    /\ \E i \in Bucketable(Ledger) : Ledger[i].total.n # 0

----------------------------------------------------------------------------
(* The best product.                                                       *)

\* The product of the page attains the greatest of the sums.
Attains(sums) ==
    /\ response.product \in DOMAIN sums
    /\ \A p \in DOMAIN sums : sums[p] <= sums[response.product]

\* C9: best_product is a product of the retained rows with the greatest sum
\* of quantity when a retained row has a quantity, and otherwise with the
\* greatest sum of total.  The quantity of a row is the one the derivation
\* leaves in the frame.
C9_BestProductAttainsMaximum == response.result => Attains(Scores(Ledger))

\* The best product by quantity is not the best by total.
Outsold(L) ==
    /\ QuantityKnown(L)
    /\ \E p \in Products(L) :
          /\ Quantities(L)[p] < Quantities(L)[response.product]
          /\ Revenues(L)[p] > Revenues(L)[response.product]

C9_Witness == response.result /\ Outsold(Ledger)

\* The best product is the one of the set that is met first in row order.
FirstOf(L, leaders) == response.product = FirstMet(L, leaders)

\* The best product is the one of the set that comes first in sorted order.
LeastOf(leaders) ==
    /\ response.product \in leaders
    /\ \A q \in leaders \ {response.product} : KeyLess(response.product, q)

\* C10, as stated: among the products that share the greatest sum,
\* best_product is the one met first in row order.
C10_FirstEncounteredLeader ==
    response.result => FirstOf(Ledger, Greatest(Scores(Ledger)))

\* C10, amended: among the products that share the greatest sum, best_product
\* is the one whose key comes first in the sorted order of the keys, whatever
\* the order of the rows; the choice is a function of the file and the
\* mapping.
C10_LeastLeader == response.result => LeastOf(Greatest(Scores(Ledger)))

\* Two products share the greatest sum and the one met first is not the best.
Tied(L) ==
    /\ Cardinality(Greatest(Scores(L))) > 1
    /\ response.product # FirstMet(L, Greatest(Scores(L)))

C10_Witness == response.result /\ Tied(Ledger)

----------------------------------------------------------------------------
(* The chart history.                                                      *)

\* The entries of chart_history.json, as load_chart_history reads them.
Persisted == load_chart_history(chartHistoryFile)

\* At most 20 entries, each recorded after the one behind it.
NewestFirst(history) ==
    /\ Len(history) <= 20
    /\ \A j \in 1..(Len(history) - 1) :
          history[j].timestamp > history[j + 1].timestamp

\* This step records an aggregation and the write succeeds.
Records == clock' # clock /\ response'.result /\ disk.state = "ok"

\* The new entry is at the head and the entries before it follow in their
\* order: all of them while they were fewer than 20, and all but the last,
\* the oldest, once they were 20.
Prepended(old, new) ==
    /\ new # <<>>
    /\ new[1].timestamp = clock
    /\ Tail(new) = IF Len(old) < 20 THEN old ELSE SubSeq(old, 1, 19)

\* C3: after any sequence of save_chart_to_history calls the persisted
\* history holds at most 20 entries with the newest at the head and the
\* others in their recording order, and recording an entry when 20 are held
\* evicts exactly the oldest.
C3_BoundedHistory ==
    /\ [] NewestFirst(Persisted)
    /\ [][Records => Prepended(Persisted, Persisted')]_vars

\* The 21st entry is recorded, no write having failed: the history holds the
\* 20 newest, the first entry is gone.
C3_Witness ==
    /\ disk.failures = 0
    /\ Len(Persisted) = 20
    /\ Persisted[1].timestamp = 20
    /\ Persisted[20].timestamp = 1

----------------------------------------------------------------------------
(* The effects of a process_data request on the output folder and on the   *)
(* history.                                                                *)

\* This step is a process_data request.
Requested == clock' # clock

\* The step leaves the output folder and the history as they were.
Untouched == outputs' = outputs /\ chartHistoryFile' = chartHistoryFile

\* The step prepends exactly one entry, whose filename is the spreadsheet of
\* this request.
PrependsOne ==
    /\ Prepended(Persisted, Persisted')
    /\ Persisted'[1].filename = ExcelName(clock)

\* The step writes the four report files of this request.
WritesReports == outputs' = outputs \cup Reports(OUTPUT_FOLDER, clock)

\* The step writes the first report files of this request, in the order
\* spreadsheet, PDF, latest spreadsheet, latest PDF, and not all of them.
WritesSomeReports ==
    \E n \in 0..(AllWrites - 1) :
        outputs' = outputs \cup Written(OUTPUT_FOLDER, clock, n)

\* The reports of every persisted entry are in the output folder.
ReportsBeforeEntry ==
    \A j \in 1..Len(Persisted) :
        Reports(OUTPUT_FOLDER, Persisted[j].timestamp) \subseteq outputs

\* C11, as stated: a process_data request that ends in an error leaves the
\* history and the output folder unchanged, and a successful one writes the
\* reports and prepends exactly one history entry whose filename is the
\* spreadsheet.
C11_SuccessPrependsEntry ==
    [][Requested =>
          /\ Failed' => Untouched
          /\ response'.result => WritesReports /\ PrependsOne]_vars

\* C11, amended: a process_data request that ends in an error leaves the
\* history and the output folder unchanged; a request that fails while it
\* writes the reports leaves the first of them, in their order, and the
\* history unchanged; a successful one writes the four reports and then
\* prepends exactly one entry whose filename is the spreadsheet when the
\* history file takes the write, leaves the history as it was when the file
\* cannot be opened, and leaves it cut short when the dump fails.  The
\* reports of every persisted entry are in the output folder.
C11_EntryWhenHistoryWritten ==
    /\ [] ReportsBeforeEntry
    /\ [][Requested =>
             /\ Failed' => Untouched
             /\ response'.page = "500" =>
                    WritesSomeReports /\ chartHistoryFile' = chartHistoryFile
             /\ response'.result =>
                    /\ WritesReports
                    /\ disk.state = "ok" => PrependsOne
                    /\ disk.state = "readonly" =>
                           chartHistoryFile' = chartHistoryFile
                    /\ disk.state = "full" =>
                           chartHistoryFile' = BrokenHistoryFile]_vars

\* A first request succeeded and a second ended in NoTimeValuesFound, on a
\* sale whose total is 2: the output folder holds the reports of the first
\* and the history its entry, no write having failed.
C11_Witness ==
    /\ disk.failures = 0
    /\ clock = 2
    /\ response.error = NoTimeValuesFound
    /\ outputs = Reports(OUTPUT_FOLDER, 0)
    /\ Len(Persisted) = 1
    /\ Persisted[1].filename = ExcelName(0)

----------------------------------------------------------------------------
(* Two calls of save_chart_to_history at once.                             *)

\* Both calls have returned, each loaded before the other opened the file
\* for writing, and p dumped before q did.
Raced(p, q) ==
    /\ calls[p].at = "returned" /\ calls[q].at = "returned"
    /\ calls[p].now < calls[q].opened
    /\ calls[q].now < calls[p].opened
    /\ calls[p].wrote < calls[q].wrote

----------------------------------------------------------------------------
(* The columns the derived fields depend on.                               *)

\* The table has a column of this name and no role names it.
Unmapped(name) ==
    /\ name \in TableColumns
    /\ \A role \in DOMAIN Mapping : Mapping[role] # name

\* A sequence without its k-th element.
Dropped(s, k) ==
    [j \in 1..(Len(s) - 1) |-> IF j < k THEN s[j] ELSE s[j + 1]]

\* The file without its column of this name.
Without(file, name) ==
    LET k == CHOOSE j \in 1..Len(file.header) :
                 ColumnsOf(file.header)[j] = name
    IN [file EXCEPT !.header = Dropped(file.header, k),
                    !.rows = [i \in 1..Len(file.rows) |->
                                 Dropped(file.rows[i], k)]]

\* What a request answers: the error, or the derived fields.
Outcome(page) ==
    [error |-> page.error, revenue |-> page.revenue, product |-> page.product,
     labels |-> page.labels, values |-> page.values]

\* The request answers what it would answer for the table without its
\* column of this name.
NoEffect(name) ==
    Outcome(Aggregate(read_csv_flexible(Without(TableFile, name)),
                      request).page) = Outcome(response)

\* When mapping.quantity is unset or names no column of the table,
\* best_product is chosen by summed total.
C14_UnmappedQuantityIgnored ==
    (response.result /\ ~IsSet("quantity_col")) => Attains(Revenues(Ledger))

\* A column literally named quantity that no role names has no effect.
C14_LiteralQuantityIgnored ==
    (TableRead /\ Unmapped("quantity")) => NoEffect("quantity")

\* A column literally named total or product that no role names has no
\* effect.
C14_LiteralTotalIgnored ==
    TableRead =>
        \A name \in {"total", "product"} : Unmapped(name) => NoEffect(name)

\* C14: the derived fields depend only on the mapped columns: without a
\* mapped quantity column best_product is chosen by summed total even if the
\* table has a column literally named quantity, and a column literally named
\* quantity, total or product that no role names has no effect on
\* total_revenue, the buckets or best_product.
C14_MappedColumnsOnly ==
    /\ C14_UnmappedQuantityIgnored
    /\ C14_LiteralQuantityIgnored
    /\ C14_LiteralTotalIgnored

----------------------------------------------------------------------------
(* The file tokens.                                                        *)

\* The last request was a process_data request whose token is the name
\* under which read_columns saved a readable upload.
TokenIssued ==
    /\ "file_token" \in DOMAIN request
    /\ \E u \in uploads : u.file.readable /\ u.name = request.file_token

\* C13: a file token issued by a successful read_columns is resolved by
\* every later process_data request with that token, whatever requests come
\* in between, a storage-path change included: the request never answers
\* that the session expired or that the uploaded file is not found.
C13_TokenStaysResolvable ==
    TokenIssued => response.error \notin {SessionExpired, FileNotFound}

----------------------------------------------------------------------------
(* The storage paths.                                                      *)

\* This step is a settings POST that failed.
SettingsFailed ==
    /\ clock' # clock
    /\ response'.page = "settings"
    /\ response'.error # ""

\* C4: a storage-path change that fails leaves UPLOAD_FOLDER, OUTPUT_FOLDER
\* and the persisted configuration as they were before the request.
C4_NoPartialApply ==
    [][SettingsFailed =>
          /\ UPLOAD_FOLDER' = UPLOAD_FOLDER
          /\ OUTPUT_FOLDER' = OUTPUT_FOLDER
          /\ configFile' = configFile]_vars

====
